---- MODULE Spec2Model ----
(***************************************************************************)
(* Glide state machine of AITPCharacter (ITPCharacter.h / ITPCharacter.cpp)*)
(*                                                                         *)
(* Numbers.  The C++ fields are floats.  Speeds, accelerations and         *)
(* velocities are modelled as integers (cm/s); GravityScale and AirControl *)
(* are modelled in hundredths (1.0 -> 100, 0.35 -> 35, 0.9 -> 90); elapsed  *)
(* time is modelled in quarters of a second.  Float-to-float copies are     *)
(* exact, and so are the integer copies.  The one arithmetic step, the      *)
(* interpolation, rounds its result to the nearest unit.                    *)
(***************************************************************************)
EXTENDS Integers, Sequences, FiniteSets, TLC

VARIABLES
    bIsGliding,          \* AITPCharacter::bIsGliding
    CurrentVelocity,     \* AITPCharacter::CurrentVelocity (FVector)
    original,            \* the five AITPCharacter::original* fields
    delta,               \* AITPCharacter::delta, quarters of a second
    Movement,            \* the five tunables of GetCharacterMovement()
    Velocity,            \* GetCharacterMovement()->Velocity (FVector)
    IsFalling,           \* GetCharacterMovement()->IsFalling()
    bBlockingHit,        \* what the downward line trace would report now
    bPressedJump,        \* ACharacter::bPressedJump
    ControlInputVector,  \* pending AddMovementInput along the right axis
    lastOp,              \* history: the handler that ran last
    prevOp,              \* history: the glide handler, if any, that ran before it
    preGlide,            \* history: tunables live just before the last glide entry
    nTicks               \* history: number of Tick calls so far

progVars == <<bIsGliding, CurrentVelocity, original, delta, Movement, Velocity,
              IsFalling, bBlockingHit, bPressedJump, ControlInputVector>>
histVars == <<lastOp, prevOp, preGlide, nTicks>>
vars == <<progVars, histVars>>

----------------------------------------------------------------------------
(* Bounds of the model *)

\* Tick is explored this many times per behaviour.
MaxTicks == 2

\* AddMovementInput accumulates at most this much pending input.
MaxInput == 1

----------------------------------------------------------------------------
(* Program constants *)

descendingRate == 300

EaseExponent == 3

GlideGravityScale == 0
GlideAirControl == 90
GlideBrakingDecelerationFalling == 350
GlideMaxAcceleration == 1024
GlideMaxWalkSpeed == 600

----------------------------------------------------------------------------
(* Values *)

FVector(x, y, z) == [X |-> x, Y |-> y, Z |-> z]

\* The five tunables of the character movement component.
Settings(g, w, d, a, c) ==
    [GravityScale |-> g, MaxWalkSpeed |-> w, BrakingDecelerationFalling |-> d,
     MaxAcceleration |-> a, AirControl |-> c]

\* The five original* fields of the character.
Originals(g, w, d, a, c) ==
    [GravityScale |-> g, WalkingSpeed |-> w, Deceleration |-> d,
     Acceleration |-> a, AirControl |-> c]

\* The tunables as the constructor and the engine defaults leave them, and as
\* a Character Blueprint may override them.
InitialSettings ==
    { Settings(100, 500, 1500, 2048, 35),
      Settings(250, 450, 800, 1500, 5),
      Settings(0, 600, 1500, 1024, 90) }

\* original* have no initializer: whatever the allocation holds.
UninitializedOriginals ==
    { Originals(0, 0, 0, 0, 0), Originals(-7, -7, -7, -7, -7) }

\* CurrentVelocity has no initializer either.
UninitializedVectors == { FVector(0, 0, 0), FVector(-7, -7, -7) }

\* Velocities the movement simulation produces.
SimVelocities ==
    { FVector(0, 0, 0), FVector(120, 0, -900), FVector(0, -40, -300) }

\* Elapsed times of a tick, in quarters of a second.
Deltas == {0, 1, 2, 4}

NoSettings == Settings(-1, -1, -1, -1, -1)

JumpZVelocity == 700

----------------------------------------------------------------------------
(* Pure functions *)

RECURSIVE Pow(_, _)
Pow(x, n) == IF n = 0 THEN 1 ELSE x * Pow(x, n - 1)

\* n / d rounded to the nearest integer (d > 0).
RoundDiv(n, d) == (2 * n + d) \div (2 * d)

\* FMath::InterpEaseInOut(A, B, Alpha, Exp) =
\*   Lerp(A, B, Alpha < 0.5 ? InterpEaseIn(0, 1, 2 Alpha, Exp) * 0.5
\*                          : InterpEaseOut(0, 1, 2 Alpha - 1, Exp) * 0.5 + 0.5)
\* with InterpEaseIn(0, 1, t, Exp) = t^Exp, InterpEaseOut(0, 1, t, Exp) =
\* 1 - (1 - t)^Exp and Lerp(A, B, t) = A + t * (B - A); Alpha is not clamped.
\* Alpha is q quarters, so 2 Alpha = q / 2 and the blend factor is the
\* fraction EaseNumerator(q, e) / EaseDenominator(e).
EaseDenominator(e) == 2 * Pow(2, e)

EaseNumerator(q, e) ==
    IF 2 * q < 4
    THEN Pow(q, e)
    ELSE EaseDenominator(e) - Pow(4 - q, e)

FInterpEaseInOut(A, B, Alpha, Exponent) ==
    A + RoundDiv(EaseNumerator(Alpha, Exponent) * (B - A), EaseDenominator(Exponent))

\* Variant: the walking speed is restored from the deceleration field.
ApplyOriginalSettingsCrossed(o) ==
    [GravityScale               |-> o.GravityScale,
     MaxWalkSpeed               |-> o.Deceleration,
     BrakingDecelerationFalling |-> o.Deceleration,
     MaxAcceleration            |-> o.Acceleration,
     AirControl                 |-> o.AirControl]

\* Variant: the values of MaxAcceleration and MaxWalkSpeed are transposed.
GlideSettingsTransposed ==
    Settings(GlideGravityScale, GlideMaxAcceleration, GlideBrakingDecelerationFalling,
             GlideMaxWalkSpeed, GlideAirControl)

GlideSettings ==
    Settings(GlideGravityScale, GlideMaxWalkSpeed, GlideBrakingDecelerationFalling,
             GlideMaxAcceleration, GlideAirControl)

RecordOriginalSettings(m) ==
    [GravityScale |-> m.GravityScale,
     WalkingSpeed |-> m.MaxWalkSpeed,
     Deceleration |-> m.BrakingDecelerationFalling,
     Acceleration |-> m.MaxAcceleration,
     AirControl   |-> m.AirControl]

ApplyOriginalSettings(o) ==
    [GravityScale               |-> o.GravityScale,
     MaxWalkSpeed               |-> o.WalkingSpeed,
     BrakingDecelerationFalling |-> o.Deceleration,
     MaxAcceleration            |-> o.Acceleration,
     AirControl                 |-> o.AirControl]

\* Variant: either condition is enough.
CanStartGlidingEither == ~bBlockingHit \/ IsFalling

\* The line trace reports no blocking hit and the character is falling.
CanStartGliding == ~bBlockingHit /\ IsFalling

\* Variant: the glide flag is not consulted.
MayEnterGlideWhileGliding == CanStartGliding

\* The condition of StartGliding's if statement.
MayEnterGlide == ~bIsGliding /\ CanStartGliding

\* Variant: the cached velocity is not compared with the terminal rate.
ShouldDescendWhileGliding == bIsGliding

\* Variant: the glide flag is not consulted.
ShouldDescendInAnyState == CurrentVelocity.Z # descendingRate * (-1)

\* The condition of DescendPlayer's if statement.
ShouldDescend == CurrentVelocity.Z # descendingRate * (-1) /\ bIsGliding

\* The target DescendPlayer hands to the interpolation.
EaseTarget == descendingRate

\* Variant: the sign is lost.
PinnedVelocityZUnsigned == descendingRate

\* The vertical velocity DescendPlayer writes to the movement component.
PinnedVelocityZ == descendingRate * (-1)

----------------------------------------------------------------------------
(* State *)

Init ==
    /\ bIsGliding = FALSE
    /\ CurrentVelocity \in UninitializedVectors
    /\ original \in UninitializedOriginals
    /\ delta = 0
    /\ Movement \in InitialSettings
    /\ Velocity = FVector(0, 0, 0)
    /\ IsFalling = FALSE
    /\ bBlockingHit = TRUE
    /\ bPressedJump = FALSE
    /\ ControlInputVector = 0
    /\ lastOp = "BeginPlay"
    /\ prevOp = "other"
    /\ preGlide = NoSettings
    /\ nTicks = 0

GlideOps == {"StartGliding.entered", "StartGliding.ignored", "StopGliding"}

Ran(op) ==
    /\ lastOp' = op
    /\ prevOp' = IF lastOp \in GlideOps THEN lastOp ELSE "other"

----------------------------------------------------------------------------
(* Handlers *)

\* Variant: the settings are recorded after they have been overwritten.
StartGlidingRecordsLate ==
    /\ IF MayEnterGlide
       THEN /\ CurrentVelocity' = Velocity
            /\ bIsGliding' = TRUE
            /\ Movement' = GlideSettings
            /\ original' = RecordOriginalSettings(GlideSettings)
            /\ preGlide' = Movement
            /\ Ran("StartGliding.entered")
       ELSE /\ UNCHANGED <<CurrentVelocity, bIsGliding, original, Movement, preGlide>>
            /\ Ran("StartGliding.ignored")
    /\ UNCHANGED <<delta, Velocity, IsFalling, bBlockingHit, bPressedJump,
                   ControlInputVector, nTicks>>

StartGliding ==
    /\ IF MayEnterGlide
       THEN /\ CurrentVelocity' = Velocity
            /\ bIsGliding' = TRUE
            /\ original' = RecordOriginalSettings(Movement)
            /\ Movement' = GlideSettings
            /\ preGlide' = Movement
            /\ Ran("StartGliding.entered")
       ELSE /\ UNCHANGED <<CurrentVelocity, bIsGliding, original, Movement, preGlide>>
            /\ Ran("StartGliding.ignored")
    /\ UNCHANGED <<delta, Velocity, IsFalling, bBlockingHit, bPressedJump,
                   ControlInputVector, nTicks>>

\* Variant: the restore exchanges the live settings with the recorded ones.
StopGlidingExchanges ==
    /\ Movement' = ApplyOriginalSettings(original)
    /\ original' = RecordOriginalSettings(Movement)
    /\ bIsGliding' = FALSE
    /\ Ran("StopGliding")
    /\ UNCHANGED <<CurrentVelocity, delta, Velocity, IsFalling,
                   bBlockingHit, bPressedJump, ControlInputVector, preGlide, nTicks>>

\* Variant: MaxAcceleration is not restored.
StopGlidingForgetsAcceleration ==
    /\ Movement' = [ApplyOriginalSettings(original) EXCEPT
                        !.MaxAcceleration = Movement.MaxAcceleration]
    /\ bIsGliding' = FALSE
    /\ Ran("StopGliding")
    /\ UNCHANGED <<CurrentVelocity, original, delta, Velocity, IsFalling,
                   bBlockingHit, bPressedJump, ControlInputVector, preGlide, nTicks>>

StopGliding ==
    /\ Movement' = ApplyOriginalSettings(original)
    /\ bIsGliding' = FALSE
    /\ Ran("StopGliding")
    /\ UNCHANGED <<CurrentVelocity, original, delta, Velocity, IsFalling,
                   bBlockingHit, bPressedJump, ControlInputVector, preGlide, nTicks>>

DescendPlayer(d) ==
    IF ShouldDescend
    THEN /\ CurrentVelocity' =
                [CurrentVelocity EXCEPT
                    !.Z = FInterpEaseInOut(@, EaseTarget, d, EaseExponent)]
         /\ Velocity' = [Velocity EXCEPT !.Z = PinnedVelocityZ]
    ELSE UNCHANGED <<CurrentVelocity, Velocity>>

\* Variant: the tick ends the glide once the character is no longer falling.
TickStopsOnLanding(deltaSeconds) ==
    /\ nTicks < MaxTicks
    /\ nTicks' = nTicks + 1
    /\ delta' = deltaSeconds
    /\ DescendPlayer(deltaSeconds)
    /\ bIsGliding' = (bIsGliding /\ IsFalling)
    /\ Ran("Tick")
    /\ UNCHANGED <<original, Movement, IsFalling, bBlockingHit,
                   bPressedJump, ControlInputVector, preGlide>>

Tick(deltaSeconds) ==
    /\ nTicks < MaxTicks
    /\ nTicks' = nTicks + 1
    /\ delta' = deltaSeconds
    /\ DescendPlayer(deltaSeconds)
    /\ Ran("Tick")
    /\ UNCHANGED <<bIsGliding, original, Movement, IsFalling, bBlockingHit,
                   bPressedJump, ControlInputVector, preGlide>>

Move(x) ==
    /\ ControlInputVector + x <= MaxInput
    /\ ControlInputVector' = ControlInputVector + x
    /\ Ran("Move")
    /\ UNCHANGED <<bIsGliding, CurrentVelocity, original, delta, Movement, Velocity,
                   IsFalling, bBlockingHit, bPressedJump, preGlide, nTicks>>

Jump ==
    /\ bPressedJump' = TRUE
    /\ Ran("Jump")
    /\ UNCHANGED <<bIsGliding, CurrentVelocity, original, delta, Movement, Velocity,
                   IsFalling, bBlockingHit, ControlInputVector, preGlide, nTicks>>

StopJumping ==
    /\ bPressedJump' = FALSE
    /\ Ran("StopJumping")
    /\ UNCHANGED <<bIsGliding, CurrentVelocity, original, delta, Movement, Velocity,
                   IsFalling, bBlockingHit, ControlInputVector, preGlide, nTicks>>

\* The engine's movement update and the world around the character: it
\* consumes the pending input, moves the character (which changes what the
\* line trace would hit), and sets the velocity and the movement mode.  On
\* the ground the vertical velocity is zero; a pressed jump on the ground
\* may launch the character with JumpZVelocity.
MovementSimulation ==
    /\ \E f \in BOOLEAN, v \in SimVelocities :
          /\ (~f => v.Z = 0)
          /\ IsFalling' = f
          /\ Velocity' = v
    /\ bBlockingHit' \in BOOLEAN
    /\ ControlInputVector' = 0
    /\ Ran("MovementSimulation")
    /\ UNCHANGED <<bIsGliding, CurrentVelocity, original, delta, Movement,
                   bPressedJump, preGlide, nTicks>>

JumpLaunch ==
    /\ bPressedJump /\ ~IsFalling
    /\ IsFalling' = TRUE
    /\ Velocity' = [Velocity EXCEPT !.Z = JumpZVelocity]
    /\ Ran("MovementSimulation")
    /\ UNCHANGED <<bIsGliding, CurrentVelocity, original, delta, Movement,
                   bBlockingHit, bPressedJump, ControlInputVector, preGlide, nTicks>>

Next ==
    \/ StartGliding
    \/ StopGliding
    \/ \E d \in Deltas : Tick(d)
    \/ \E x \in 0 .. 1 : Move(x)
    \/ Jump
    \/ StopJumping
    \/ MovementSimulation
    \/ JumpLaunch

Spec == Init /\ [][Next]_vars

----------------------------------------------------------------------------
(* Properties *)

StartGlidingRan == lastOp' \in {"StartGliding.entered", "StartGliding.ignored"}

TerminalVelocityZ == 0 - descendingRate

GlideModeValues ==
    [GravityScale |-> 0, MaxWalkSpeed |-> 600, BrakingDecelerationFalling |-> 350,
     MaxAcceleration |-> 1024, AirControl |-> 90]

\* x lies strictly between a and b.
StrictlyBetween(x, a, b) == (a < x /\ x < b) \/ (b < x /\ x < a)

\* C1 (snapshot round trip): a StartGliding() that entered the glide, followed
\* immediately by StopGliding(), leaves the five tunables equal to the values
\* they had before the StartGliding(), and the state Grounded.
C1_SnapshotRoundTrip ==
    (lastOp = "StopGliding" /\ prevOp = "StartGliding.entered")
        => (Movement = preGlide /\ ~bIsGliding)

C1_Witness ==
    /\ lastOp = "StopGliding" /\ prevOp = "StartGliding.entered"
    /\ Movement = preGlide
    /\ Movement # GlideModeValues
    /\ ~bIsGliding

\* C2 (transition gating): StartGliding() called while Grounded enters the
\* glide exactly when the probe is clear and the character is airborne;
\* otherwise the state stays Grounded and the tunables, the snapshot and
\* CurrentVelocity are unchanged.
C2_TransitionGating ==
    [][(~bIsGliding /\ StartGlidingRan)
          => /\ bIsGliding' <=> (~bBlockingHit /\ IsFalling)
             /\ ~bIsGliding' => UNCHANGED <<Movement, original, CurrentVelocity>>
      ]_vars

C2_Witness ==
    /\ lastOp = "StartGliding.ignored"
    /\ ~bIsGliding
    /\ ~bBlockingHit /\ ~IsFalling

\* C3 (glide entry effect): a StartGliding() that entered the glide leaves
\* the state Gliding, CurrentVelocity equal to the simulation's velocity and
\* the tunables equal to the glide-mode values; and in every Gliding state
\* the tunables equal the glide-mode values.
C3_GlideEntryEffect ==
    /\ bIsGliding => Movement = GlideModeValues
    /\ lastOp = "StartGliding.entered"
          => (bIsGliding /\ CurrentVelocity = Velocity)

C3_Witness ==
    /\ lastOp = "StartGliding.entered"
    /\ bIsGliding
    /\ CurrentVelocity = FVector(120, 0, -900)
    /\ preGlide # GlideModeValues
    /\ Movement = GlideModeValues

\* C4 (StopGliding is harmless while Grounded): StopGliding() called in a
\* Grounded state leaves the five tunables as they were before the call.
C4_StopHarmlessWhileGrounded ==
    [][(~bIsGliding /\ lastOp' = "StopGliding") => Movement' = Movement]_vars

\* C5 (idempotent stop): a second StopGliding() right after a StopGliding()
\* changes nothing of the program's state, and after a glide episode
\* StopGliding() leaves the tunables equal to their pre-glide values.
C5_IdempotentStop ==
    /\ [][(lastOp = "StopGliding" /\ lastOp' = "StopGliding")
             => UNCHANGED progVars]_vars
    /\ []((lastOp = "StopGliding" /\ preGlide # NoSettings) => Movement = preGlide)

C5_Witness ==
    /\ lastOp = "StopGliding" /\ prevOp = "StopGliding"
    /\ preGlide # NoSettings
    /\ Movement = preGlide
    /\ Movement # GlideModeValues

\* C6 as claimed (pinning): after every Tick in state Gliding the
\* simulation's vertical velocity equals -descendingRate, also when
\* CurrentVelocity.Z already equals -descendingRate.
C6_PinnedAfterEveryTick ==
    [][(bIsGliding /\ lastOp' = "Tick") => Velocity'.Z = TerminalVelocityZ]_vars

\* C6 as amended (pinning): a Tick in state Gliding that starts with
\* CurrentVelocity.Z different from -descendingRate leaves the simulation's
\* vertical velocity equal to -descendingRate, whatever it was before; a Tick
\* that starts with CurrentVelocity.Z equal to -descendingRate leaves the
\* simulation's velocity as it was.
C6_PinnedWhileEasing ==
    [][(bIsGliding /\ lastOp' = "Tick")
          => IF CurrentVelocity.Z # TerminalVelocityZ
             THEN Velocity'.Z = TerminalVelocityZ
             ELSE Velocity' = Velocity
      ]_vars

C6_Witness ==
    /\ lastOp = "Tick"
    /\ bIsGliding
    /\ delta > 0
    /\ CurrentVelocity.Z # TerminalVelocityZ
    /\ Velocity.Z = TerminalVelocityZ

\* C7 (monotonic convergence): a Tick with positive elapsed time in state
\* Gliding with CurrentVelocity.Z different from -descendingRate moves
\* CurrentVelocity.Z strictly between its previous value and -descendingRate.
C7_MonotonicConvergence ==
    [][(bIsGliding /\ CurrentVelocity.Z # TerminalVelocityZ
          /\ lastOp' = "Tick" /\ delta' > 0)
          => StrictlyBetween(CurrentVelocity'.Z, CurrentVelocity.Z, TerminalVelocityZ)
      ]_vars

\* C8 (snapshot validity): in every Gliding state the snapshot has been
\* written at the glide entry and holds the five tunables that were live
\* just before it.
C8_SnapshotValidity ==
    bIsGliding =>
        /\ preGlide # NoSettings
        /\ original.GravityScale = preGlide.GravityScale
        /\ original.WalkingSpeed = preGlide.MaxWalkSpeed
        /\ original.Deceleration = preGlide.BrakingDecelerationFalling
        /\ original.Acceleration = preGlide.MaxAcceleration
        /\ original.AirControl = preGlide.AirControl

C8_Witness ==
    /\ bIsGliding
    /\ lastOp = "Tick"
    /\ preGlide # GlideModeValues
    /\ original = Originals(250, 450, 800, 1500, 5)

\* C9 (StartGliding while Gliding): StartGliding() called in state Gliding
\* changes nothing, also when CanStartGliding() is true, and a StopGliding()
\* after it restores the tunables to their pre-glide values.
C9_StartWhileGlidingIgnored ==
    /\ [][(bIsGliding /\ StartGlidingRan)
             => (lastOp' = "StartGliding.ignored" /\ UNCHANGED progVars)]_vars
    /\ [][(bIsGliding /\ lastOp = "StartGliding.ignored" /\ lastOp' = "StopGliding")
             => Movement' = preGlide]_vars

C9_Witness ==
    /\ lastOp = "StartGliding.ignored"
    /\ bIsGliding
    /\ ~bBlockingHit /\ IsFalling
    /\ original = Originals(100, 500, 1500, 2048, 35)
    /\ CurrentVelocity # Velocity

\* C10 (no descent outside Gliding): a Tick in state Grounded leaves
\* CurrentVelocity, the simulation's velocity, the tunables, the snapshot and
\* the glide state unchanged.
C10_TickIdleWhileGrounded ==
    [][(~bIsGliding /\ lastOp' = "Tick")
          => UNCHANGED <<CurrentVelocity, Velocity, Movement, original, bIsGliding>>
      ]_vars

C10_Witness ==
    /\ lastOp = "Tick" /\ prevOp = "StopGliding"
    /\ ~bIsGliding
    /\ delta > 0
    /\ CurrentVelocity.Z # TerminalVelocityZ
    /\ Velocity.Z # TerminalVelocityZ

\* C11 (transitions only through the two operations): the glide state
\* changes from Grounded to Gliding only in a StartGliding() that entered the
\* glide and from Gliding to Grounded only in StopGliding(); Tick, Move, the
\* jump events and the movement simulation (landing, the probe becoming
\* blocked) leave the glide state, the snapshot and the five tunables
\* unchanged, so a glide persists after landing.
C11_TransitionsOnlyByGlideOps ==
    [][/\ (~bIsGliding /\ bIsGliding') => lastOp' = "StartGliding.entered"
       /\ (bIsGliding /\ ~bIsGliding') => lastOp' = "StopGliding"
       /\ lastOp' \in {"Tick", "Move", "Jump", "StopJumping", "MovementSimulation"}
             => UNCHANGED <<bIsGliding, original, Movement>>
      ]_vars

C11_Witness ==
    /\ lastOp = "Tick"
    /\ bIsGliding
    /\ ~IsFalling /\ bBlockingHit
    /\ Movement = GlideModeValues
    /\ preGlide # GlideModeValues

\* C12 (steady state): a Tick in state Gliding that starts with
\* CurrentVelocity.Z equal to -descendingRate leaves CurrentVelocity
\* unchanged, and while the glide lasts CurrentVelocity.Z stays equal to
\* -descendingRate once it is.
C12_SteadyState ==
    /\ [][(bIsGliding /\ CurrentVelocity.Z = TerminalVelocityZ /\ lastOp' = "Tick")
             => CurrentVelocity' = CurrentVelocity]_vars
    /\ [][(bIsGliding /\ CurrentVelocity.Z = TerminalVelocityZ /\ bIsGliding')
             => CurrentVelocity'.Z = TerminalVelocityZ]_vars

\* A tick of one second would have moved CurrentVelocity.Z to the ease
\* target, so here the tick found it at -descendingRate and left it.
C12_Witness ==
    /\ lastOp = "Tick"
    /\ bIsGliding
    /\ delta = 4
    /\ CurrentVelocity.Z = TerminalVelocityZ

\* C13 (restoration across episodes): the tunables recorded as live before
\* a glide are the same for every glide episode, and in every Grounded state
\* after a glide the live tunables and the snapshot equal them, so the
\* glide-mode values never leak into the snapshot or the Grounded state.
C13_RestorationAcrossEpisodes ==
    /\ [][preGlide # NoSettings => preGlide' = preGlide]_vars
    /\ []((preGlide # NoSettings /\ ~bIsGliding)
             => (Movement = preGlide /\ ApplyOriginalSettings(original) = preGlide))

\* CurrentVelocity is (0, 0, -300) only when a glide was entered with that
\* simulation velocity, which only a tick of an earlier glide produces: the
\* state follows the StopGliding() of a second episode.
C13_Witness ==
    /\ lastOp = "StopGliding" /\ prevOp = "StartGliding.entered"
    /\ ~bIsGliding
    /\ CurrentVelocity = FVector(0, 0, TerminalVelocityZ)
    /\ Movement = preGlide
    /\ Movement # GlideModeValues

====
